---- MODULE Spec2Model ----
(***************************************************************************)
(* Model of ateco_extractor: the OpenAPI company client (client.py), the  *)
(* record flattener and spreadsheet writer (exporter.py) and the command  *)
(* line entry point (cli.py).                                              *)
(*                                                                         *)
(* Python values are tagged records so that values of different Python    *)
(* types can be compared: None, bool, int, float, str, list, dict.  A     *)
(* raised exception is the tagged value [t |-> "raise", cls, text, arg];   *)
(* every operator that evaluates a Python expression propagates it.       *)
(***************************************************************************)
EXTENDS Integers, Sequences, FiniteSets, TLC

VARIABLES
    pc,        \* position of the running call: see Init of each specification
    args,      \* parsed command line (cli.py build_parser)
    sanitized, \* main's sanitized_ateco
    file,      \* the destination file: NoFile, OldFile or the saved sheet
    requests,  \* query parameters of every GET issued, in order
    pages,     \* the data arrays of the pages search_companies accepted
    lastResp,  \* the response the last _get call received
    lastOut,   \* what the last _get call returned or raised
    gen,       \* locals of the search_companies generator frame
    yielded,   \* records the generator has yielded so far
    rows,      \* export_to_excel's list of flattened rows
    result,    \* return value of dry_run_count / export_to_excel / pure call
    exc,       \* the exception that ended the call (NoExc if none)
    exitCode,  \* process exit status (-1 while running)
    fnIn       \* argument of the pure function under test

vars == <<pc, args, sanitized, file, requests, pages, lastResp, lastOut, gen, yielded,
          rows, result, exc, exitCode, fnIn>>

----------------------------------------------------------------------------
\* Bounds of the model

MaxCodeLen == 3
MaxPageLen == 2
MaxRequests == 2
MaxLimit == 2
MaxCap == 3

----------------------------------------------------------------------------
\* Python values

Null == [t |-> "null"]
Absent == [t |-> "absent"]
Bool(b) == [t |-> "bool", b |-> b]
Num(n) == [t |-> "int", n |-> n]
Flt(x) == [t |-> "float", f |-> x]
Str(s) == [t |-> "str", s |-> s]
List(l) == [t |-> "list", l |-> l]
Dict(o) == [t |-> "dict", o |-> o]
EmptyDict == Dict(<<>>)
EmptyList == List(<<>>)
\* An exception of class cls whose message is text, followed by arg if any.
Raise(cls, text, arg) == [t |-> "raise", cls |-> cls, text |-> text, arg |-> arg]
NoExc == [t |-> "none"]

IsRaise(v) == v.t = "raise"

\* A dict literal whose keys with the value Absent are left out.
MkDict(f) == Dict([k \in {x \in DOMAIN f : f[x].t # "absent"} |-> f[k]])

\* Python truthiness (bool(v)).
Truthy(v) ==
    CASE v.t = "null" -> FALSE
      [] v.t = "bool" -> v.b
      [] v.t = "int" -> v.n # 0
      [] v.t = "float" -> v.f # "0.0"
      [] v.t = "str" -> v.s # ""
      [] v.t = "chars" -> v.c # <<>>
      [] v.t = "list" -> v.l # <<>>
      [] v.t = "dict" -> DOMAIN v.o # {}
      [] OTHER -> TRUE

AttributeError == Raise("AttributeError", "object has no attribute 'get'", Null)

\* v.get(k): dict lookup with None for a missing key; any other type has no
\* attribute get.
PyGet(v, k) ==
    CASE IsRaise(v) -> v
      [] v.t = "dict" -> IF k \in DOMAIN v.o THEN v.o[k] ELSE Null
      [] OTHER -> AttributeError

\* v.get(k, default)
PyGetDefault(v, k, default) ==
    CASE IsRaise(v) -> v
      [] v.t = "dict" -> IF k \in DOMAIN v.o THEN v.o[k] ELSE default
      [] OTHER -> AttributeError

\* a or b
PyOr(a, b) == IF IsRaise(a) THEN a ELSE IF Truthy(a) THEN a ELSE b

----------------------------------------------------------------------------
\* client.py: sanitize_ateco_code.  A string is a sequence of characters.

\* A str given as its characters (an ATECO code, a numeric string).
CharStr(chars) == [t |-> "chars", c |-> chars]

Digits == {"0", "1", "7"}
Chars == Digits \cup {".", "a", " "}
IsDigit(ch) == ch \in Digits

Strings(n) == UNION {[1..k -> Chars] : k \in 0..n}

SanitizeKeepsDots(code) ==
    IF code = <<>>
    THEN Raise("ValueError", "ATECO code must be provided", Null)
    ELSE LET digits == SelectSeq(code, LAMBDA ch : IsDigit(ch) \/ ch = ".")
         IN IF digits = <<>>
            THEN Raise("ValueError", "ATECO code does not contain any digits", CharStr(code))
            ELSE CharStr(digits)

sanitize_ateco_code(code) ==
    IF code = <<>>
    THEN Raise("ValueError", "ATECO code must be provided", Null)
    ELSE LET digits == SelectSeq(code, IsDigit)
         IN IF digits = <<>>
            THEN Raise("ValueError", "ATECO code does not contain any digits", CharStr(code))
            ELSE CharStr(digits)

----------------------------------------------------------------------------
\* exporter.py: the flattener

STANDARD_HEADERS ==
    << "id", "company_name", "vat_code", "tax_code", "activity_status",
       "cciaa", "rea_code", "start_date", "registration_date", "address",
       "street_number", "toponym", "town", "province", "zip_code",
       "town_code", "region", "latitude", "longitude", "ateco_code",
       "ateco_description", "ateco_secondary", "ateco2022_code",
       "ateco2022_description", "pec", "sdi_code", "sdi_code_updated_at",
       "last_update_timestamp", "creation_timestamp", "turnover",
       "turnover_year", "turnover_range", "share_capital", "net_worth",
       "enterprise_size", "employees", "employee_range", "employee_trend",
       "website", "email", "telephone", "fax" >>

\* datetime.fromtimestamp raises for an epoch outside the platform's range;
\* the float "1e30" stands for such an epoch.
EpochInRange(v) == ~(v.t = "float" /\ v.f = "1e30")

\* The ISO-8601 text of epoch v, in UTC.
IsoTime(v) == [t |-> "isotime", of |-> v]

_timestamp_to_iso(timestamp) ==
    IF IsRaise(timestamp) THEN timestamp
    ELSE IF timestamp.t \in {"int", "float", "bool"}
         THEN IF EpochInRange(timestamp) THEN IsoTime(timestamp) ELSE timestamp
         ELSE timestamp

\* coords[index] for a 0-based Python index
_safe_coordinate(address, index) ==
    LET gps == PyOr(PyGet(address, "gps"), EmptyDict)
        coords == PyGet(gps, "coordinates")
    IN IF IsRaise(coords) THEN coords
       ELSE IF coords.t = "list" /\ Len(coords.l) > index
            THEN coords.l[index + 1]
            ELSE Null

RECURSIVE NestedWalk(_, _)
NestedWalk(current, path) ==
    IF path = <<>> THEN current
    ELSE IF current.t # "dict" THEN Null
         ELSE NestedWalk(PyGet(current, Head(path)), Tail(path))

_nested_get(data, path) == NestedWalk(data, path)

\* The first exception among the values, in evaluation order, else NoExc.
RECURSIVE FirstRaise(_)
FirstRaise(vals) ==
    IF vals = <<>> THEN NoExc
    ELSE IF IsRaise(Head(vals)) THEN Head(vals) ELSE FirstRaise(Tail(vals))

flatten_company_record(record) ==
    LET address == PyOr(PyGet(PyOr(PyGet(record, "address"), EmptyDict),
                              "registeredOffice"), EmptyDict)
        ateco == PyOr(PyGet(PyOr(PyGet(record, "atecoClassification"), EmptyDict),
                            "ateco"), EmptyDict)
        ateco_secondary == PyGet(PyOr(PyGet(record, "atecoClassification"),
                                      EmptyDict), "secondaryAteco")
        ateco2022 == PyOr(PyGet(PyOr(PyGet(record, "atecoClassification"),
                                     EmptyDict), "ateco2022"), EmptyDict)
        ecofin == PyOr(PyGet(PyOr(PyGet(record, "balanceSheets"), EmptyDict),
                             "last"),
                       PyOr(PyGet(record, "ecofin"), EmptyDict))
        employees_block == PyOr(PyGet(record, "employees"), EmptyDict)
        locals == <<address, ateco, ateco_secondary, ateco2022, ecofin,
                    employees_block>>
        flattened ==
          [ id |-> PyGet(record, "id"),
            company_name |-> PyGet(record, "companyName"),
            vat_code |-> PyGet(record, "vatCode"),
            tax_code |-> PyGet(record, "taxCode"),
            activity_status |-> PyGet(record, "activityStatus"),
            cciaa |-> PyGet(record, "cciaa"),
            rea_code |-> PyGet(record, "reaCode"),
            start_date |-> PyGet(record, "startDate"),
            registration_date |-> PyGet(record, "registrationDate"),
            address |-> PyGet(address, "streetName"),
            street_number |-> PyGet(address, "streetNumber"),
            toponym |-> PyGet(address, "toponym"),
            town |-> PyGet(address, "town"),
            province |-> PyGet(address, "province"),
            zip_code |-> PyGet(address, "zipCode"),
            town_code |-> PyGet(address, "townCode"),
            region |-> _nested_get(address, <<"region", "description">>),
            latitude |-> _safe_coordinate(address, 1),
            longitude |-> _safe_coordinate(address, 0),
            ateco_code |-> PyGet(ateco, "code"),
            ateco_description |-> PyGet(ateco, "description"),
            ateco_secondary |-> ateco_secondary,
            ateco2022_code |-> PyGet(ateco2022, "code"),
            ateco2022_description |-> PyGet(ateco2022, "description"),
            pec |-> PyGet(record, "pec"),
            sdi_code |-> PyGet(record, "sdiCode"),
            sdi_code_updated_at |->
                _timestamp_to_iso(PyGet(record, "sdiCodeTimestamp")),
            last_update_timestamp |->
                _timestamp_to_iso(PyGet(record, "lastUpdateTimestamp")),
            creation_timestamp |->
                _timestamp_to_iso(PyGet(record, "creationTimestamp")),
            turnover |-> PyGet(ecofin, "turnover"),
            turnover_year |-> PyGet(ecofin, "turnoverYear"),
            turnover_range |->
                _nested_get(ecofin, <<"turnoverRange", "description">>),
            share_capital |-> PyGet(ecofin, "shareCapital"),
            net_worth |-> PyGet(ecofin, "netWorth"),
            enterprise_size |->
                _nested_get(ecofin, <<"enterpriseSize", "description">>),
            employees |-> PyOr(PyGet(employees_block, "employee"),
                               PyGet(ecofin, "employees")),
            employee_range |->
                _nested_get(employees_block, <<"employeeRange", "description">>),
            employee_trend |-> PyGet(employees_block, "employeeTrend"),
            website |-> _nested_get(record, <<"webAndSocial", "website">>),
            email |-> _nested_get(record, <<"mail", "email">>),
            telephone |-> _nested_get(record, <<"contacts", "telephoneNumber">>),
            fax |-> _nested_get(record, <<"contacts", "fax">>) ]
        raised == FirstRaise(locals \o
                     [i \in 1..Len(STANDARD_HEADERS) |->
                          flattened[STANDARD_HEADERS[i]]])
    IN IF raised # NoExc THEN raised ELSE Dict(flattened)

\* ws.append([row.get(header) for header in headers])
SheetRow(row) == [i \in 1..Len(STANDARD_HEADERS) |-> PyGet(row, STANDARD_HEADERS[i])]

----------------------------------------------------------------------------
\* client.py: the HTTP client

API_MAX_LIMIT == 100

Min(a, b) == IF a < b THEN a ELSE b

\* SearchParams(...) as built by search_companies
SearchParams(ateco_code, data_enrichment, limit, dry_run) ==
    [ateco_code |-> ateco_code, data_enrichment |-> data_enrichment,
     limit |-> limit, dry_run |-> dry_run]

\* The query of one GET.  dataEnrichment "" and dryRun FALSE stand for the
\* key being left out of the query.
as_query_params(params, skip) ==
    [atecoCode |-> params.ateco_code,
     limit |-> params.limit,
     skip |-> skip,
     dataEnrichment |-> params.data_enrichment,
     dryRun |-> params.dry_run]

\* What session.get gives back: a response (status, text, parsed JSON body)
\* or a transport failure raised by the HTTP library.
Response(status, text, json) ==
    [t |-> "response", status |-> status, text |-> text, json |-> json]
ConnectionFailed == Raise("ConnectionError", "connection failed", Null)

\* response.raise_for_status(): HTTPError for a 4xx or 5xx status.
RaisesForStatus(status) == status >= 400 /\ status < 600

IsOpenAPIError(e) ==
    IsRaise(e) /\ e.cls \in {"OpenAPIError", "AuthenticationError",
                             "PaymentRequiredError", "ValidationError"}

get_ignores_failure_flag(response) ==
    IF IsRaise(response) THEN response
    ELSE IF response.status = 401
    THEN Raise("AuthenticationError", "Unauthorized: check your bearer token", Null)
    ELSE IF response.status = 402
    THEN Raise("PaymentRequiredError", "Insufficient credits on OpenAPI account", Null)
    ELSE IF response.status = 422
    THEN Raise("ValidationError", "Request rejected: invalid parameters", Null)
    ELSE IF RaisesForStatus(response.status)
    THEN Raise("OpenAPIError", "OpenAPI request failed: ",
               IF response.text # "" THEN Str(response.text) ELSE Str("HTTPError"))
    ELSE response.json

get_checks_body_first(response) ==
    IF IsRaise(response) THEN response
    ELSE IF ~Truthy(PyGetDefault(response.json, "success", Bool(FALSE)))
    THEN Raise("OpenAPIError", "OpenAPI reported an error: ",
               PyOr(PyGet(response.json, "message"), Str("Unknown error")))
    ELSE IF response.status = 401
    THEN Raise("AuthenticationError", "Unauthorized: check your bearer token", Null)
    ELSE IF response.status = 402
    THEN Raise("PaymentRequiredError", "Insufficient credits on OpenAPI account", Null)
    ELSE IF response.status = 422
    THEN Raise("ValidationError", "Request rejected: invalid parameters", Null)
    ELSE IF RaisesForStatus(response.status)
    THEN Raise("OpenAPIError", "OpenAPI request failed: ",
               IF response.text # "" THEN Str(response.text) ELSE Str("HTTPError"))
    ELSE response.json

_get(response) ==
    IF IsRaise(response) THEN response
    ELSE IF response.status = 401
    THEN Raise("AuthenticationError", "Unauthorized: check your bearer token", Null)
    ELSE IF response.status = 402
    THEN Raise("PaymentRequiredError", "Insufficient credits on OpenAPI account", Null)
    ELSE IF response.status = 422
    THEN Raise("ValidationError", "Request rejected: invalid parameters", Null)
    ELSE IF RaisesForStatus(response.status)
    THEN Raise("OpenAPIError", "OpenAPI request failed: ",
               IF response.text # "" THEN Str(response.text) ELSE Str("HTTPError"))
    ELSE LET payload == response.json
         IN IF ~Truthy(PyGetDefault(payload, "success", Bool(FALSE)))
            THEN Raise("OpenAPIError", "OpenAPI reported an error: ",
                       PyOr(PyGet(payload, "message"), Str("Unknown error")))
            ELSE payload

\* str.isdigit() and int(str) on a string given as its characters
IsDigitStr(chars) == chars # <<>> /\ \A i \in 1..Len(chars) : IsDigit(chars[i])
DigitVal(ch) == CASE ch = "0" -> 0 [] ch = "1" -> 1 [] ch = "7" -> 7
RECURSIVE IntOf(_)
IntOf(chars) ==
    IF chars = <<>> THEN 0
    ELSE 10 * IntOf(SubSeq(chars, 1, Len(chars) - 1)) + DigitVal(chars[Len(chars)])

dry_run_total_any_string(payload) ==
    LET metadata == PyOr(PyGet(payload, "metadata"), EmptyDict)
        total == PyGet(metadata, "total")
    IN IF IsRaise(total) THEN total
       ELSE IF total.t \in {"int", "bool", "chars"} THEN total
       ELSE Raise("OpenAPIError",
                  "Dry run response did not include 'metadata.total'", Null)

\* dry_run_count after its request: the total of a validated payload
dry_run_total(payload) ==
    LET metadata == PyOr(PyGet(payload, "metadata"), EmptyDict)
        total == PyGet(metadata, "total")
    IN IF IsRaise(total) THEN total
       ELSE IF total.t \in {"int", "bool"} THEN total
       ELSE IF total.t = "chars" /\ IsDigitStr(total.c) THEN Num(IntOf(total.c))
       ELSE Raise("OpenAPIError",
                  "Dry run response did not include 'metadata.total'", Null)

\* dry_run_count: its query and its result for the response it receives
dry_run_count(ateco_code, response) ==
    LET sanitized_code == sanitize_ateco_code(ateco_code)
    IN IF IsRaise(sanitized_code)
       THEN [query |-> <<>>, out |-> NoExc, value |-> sanitized_code]
       ELSE LET params == SearchParams(sanitized_code, "", 1, TRUE)
                payload == _get(response)
            IN [query |-> <<as_query_params(params, 0)>>,
                out |-> payload,
                value |-> IF IsRaise(payload) THEN payload
                          ELSE dry_run_total(payload)]

\* search_companies, one loop iteration: what the page just fetched leads to
page_data(payload) ==
    LET data == PyGetDefault(payload, "data", EmptyList)
    IN IF data.t # "list"
       THEN Raise("OpenAPIError",
                  "Unexpected response structure: 'data' is not a list", Null)
       ELSE data

\* a cap tested for equality instead of >=
cap_reached_exact(max_records, fetched) ==
    max_records.t # "null" /\ fetched = max_records.n

cap_exceeded(max_records, fetched) ==
    max_records.t # "null" /\ fetched > max_records.n

\* the test after an item was yielded and counted (client.py line 150)
cap_reached(max_records, fetched) ==
    max_records.t # "null" /\ fetched >= max_records.n

last_page_inclusive(data, limit) == Len(data) <= limit

\* the test after the page's last item (client.py line 153)
last_page(data, limit) == Len(data) < limit

next_skip_by_one(skip, limit) == skip + 1

\* the offset of the next page (client.py line 156)
next_skip(skip, limit) == skip + limit

page_limit(limit) == Min(limit, API_MAX_LIMIT)

----------------------------------------------------------------------------
\* Inputs: command lines, raw records and upstream responses

AtecoArgs == {<<>>, <<"a", ".">>, <<"1", "0", ".", "7">>}
Limits == {-1, 0} \cup (1..MaxLimit) \cup {API_MAX_LIMIT, API_MAX_LIMIT + 1}
MaxRecordsArgs == {Null} \cup {Num(n) : n \in (-1)..MaxCap}

\* A complete record, a record with only an id, and a record whose address
\* is a plain string instead of an object.
RecordA ==
    Dict([id |-> Str("A"), companyName |-> Str("Example SRL"),
          address |-> Dict([registeredOffice |->
              Dict([streetName |-> Str("Via Roma 1"), town |-> Str("Verona"),
                    gps |-> Dict([coordinates |-> List(<<Flt("10.0"), Flt("45.0")>>)]),
                    region |-> Dict([description |-> Str("Veneto")])])]),
          atecoClassification |-> Dict([ateco |-> Dict([code |-> Str("1071")]),
                                         secondaryAteco |-> Str("107200")]),
          employees |-> Dict([employee |-> Num(12)]),
          creationTimestamp |-> Num(1700000000)])
RecordB == Dict([id |-> Str("B")])
RecordC == Dict([id |-> Str("C"), address |-> Str("Via Roma 1, Verona")])
Records == {RecordA, RecordB, RecordC}

PageLists == UNION {[1..k -> Records] : k \in 0..MaxPageLen}
DataVals == {Absent, Null, Dict([error |-> Str("x")])} \cup {List(l) : l \in PageLists}

\* Bodies of /IT-search: any data under a set success flag; under a flag
\* that is false or missing (the data is then never read) no data or a page.
SearchBodies ==
    {MkDict([success |-> Bool(TRUE), message |-> m, data |-> d]) :
        m \in {Absent, Str("Invalid token")}, d \in DataVals}
    \cup
    {MkDict([success |-> sc, message |-> m, data |-> d]) :
        sc \in {Absent, Bool(FALSE)},
        m \in {Absent, Str("Invalid token")},
        d \in {Absent, List(<<RecordB>>)}}

TotalVals == {Absent, Null, Num(0), Num(42), Bool(TRUE), Flt("4.5"),
              CharStr(<<"1", "7">>), CharStr(<<"0", "7">>), CharStr(<<"a">>),
              CharStr(<<"1", ".", "7">>), CharStr(<<>>)}
MetadataVals == {Absent, Null, Str("n/a")} \cup {MkDict([total |-> tv]) : tv \in TotalVals}

DryRunBodies ==
    {MkDict([success |-> sc, message |-> m, data |-> EmptyList, metadata |-> md]) :
        sc \in {Absent, Bool(TRUE), Bool(FALSE)},
        m \in {Absent, Str("Invalid token")},
        md \in MetadataVals}

\* Final statuses (the HTTP library follows redirects itself).
OkStatuses == {200}
ErrorStatuses == {400, 401, 402, 404, 422, 500}

OkBody == MkDict([success |-> Bool(TRUE), data |-> List(<<RecordB>>),
                  metadata |-> MkDict([total |-> Num(42)])])
FailBody == MkDict([success |-> Bool(FALSE), message |-> Str("Invalid token")])

ErrorResponses ==
    {Response(st, tx, b) : st \in ErrorStatuses, tx \in {"", "Bad Gateway"},
                           b \in {OkBody, FailBody}}
    \cup {ConnectionFailed}

SearchResponses == {Response(st, "", b) : st \in OkStatuses, b \in SearchBodies}
                   \cup ErrorResponses
DryRunResponses == {Response(st, "", b) : st \in OkStatuses, b \in DryRunBodies}
                   \cup ErrorResponses

----------------------------------------------------------------------------
\* The destination file

NoFile == [t |-> "nofile"]
OldFile == [t |-> "xlsx", title |-> "old", rows |-> <<>>]

HeaderRow == [i \in 1..Len(STANDARD_HEADERS) |-> Str(STANDARD_HEADERS[i])]

\* wb.save(): one sheet, the header row, then one row per flattened record
Workbook(rs) ==
    [t |-> "xlsx", title |-> "Aziende",
     rows |-> <<HeaderRow>> \o [i \in 1..Len(rs) |-> SheetRow(rs[i])]]

----------------------------------------------------------------------------
\* The command: cli.py main(), driving dry_run_count or search_companies
\* and export_to_excel

NoGen == [state |-> "none"]
NoValue == [t |-> "novalue"]

Init ==
    /\ pc = "main"
    /\ args \in [ateco : AtecoArgs, token : BOOLEAN, dry_run : BOOLEAN,
                 limit : Limits, max_records : MaxRecordsArgs]
    /\ file \in {NoFile, OldFile}
    /\ sanitized = NoValue
    /\ requests = <<>>
    /\ pages = <<>>
    /\ lastResp = NoValue
    /\ lastOut = NoValue
    /\ gen = NoGen
    /\ yielded = <<>>
    /\ rows = <<>>
    /\ result = NoValue
    /\ exc = NoExc
    /\ exitCode = -1
    /\ fnIn = NoValue

\* The process ends: sys.exit(code), or an exception nothing catches, for
\* which the interpreter prints the traceback and exits with status 1.
Exit(code, e) == pc' = "exit" /\ exitCode' = code /\ exc' = e
Uncaught(e) == Exit(1, e)
ParserError(text, arg) == Exit(2, Raise("SystemExit", text, arg))

\* main, lines 94-110: the token, the code, the client
MainStart ==
    /\ pc = "main"
    /\ LET code == sanitize_ateco_code(args.ateco)
       IN IF ~args.token
          THEN /\ ParserError("token required", Null)
               /\ UNCHANGED sanitized
          ELSE IF IsRaise(code)
          THEN /\ ParserError(code.text, code.arg)
               /\ UNCHANGED sanitized
          ELSE /\ sanitized' = code
               /\ pc' = IF args.dry_run THEN "dry_run" ELSE "export"
               /\ UNCHANGED <<exc, exitCode>>
    /\ UNCHANGED <<args, file, requests, pages, lastResp, lastOut, gen,
                   yielded, rows, result, fnIn>>

\* main, lines 112-126: the dry run
MainDryRun ==
    /\ pc = "dry_run"
    /\ \E response \in DryRunResponses :
         LET r == dry_run_count(sanitized.c, response)
         IN /\ requests' = requests \o r.query
            /\ lastResp' = response
            /\ lastOut' = r.out
            /\ IF IsOpenAPIError(r.value)
               THEN Exit(1, r.value) /\ UNCHANGED result
               ELSE IF IsRaise(r.value)
               THEN Uncaught(r.value) /\ UNCHANGED result
               ELSE Exit(0, NoExc) /\ result' = r.value
    /\ UNCHANGED <<args, sanitized, file, pages, gen, yielded, rows, fnIn>>

\* How main ends when search_companies or export_to_excel raises e.
MainRaise(e) == IF IsOpenAPIError(e) THEN Exit(1, e) ELSE Uncaught(e)

\* main line 129 and export_to_excel line 125: the generator is created and
\* first resumed; search_companies lines 123-136 run.
SearchStart ==
    /\ pc = "export"
    /\ LET code == sanitize_ateco_code(sanitized.c)
       IN IF args.limit <= 0
          THEN /\ MainRaise(Raise("ValueError", "limit must be greater than zero", Null))
               /\ gen' = [state |-> "raised"]
          ELSE IF IsRaise(code)
          THEN /\ MainRaise(code)
               /\ gen' = [state |-> "raised"]
          ELSE /\ gen' = [state |-> "running",
                          params |-> SearchParams(code, "Advanced",
                                                  page_limit(args.limit), FALSE),
                          fetched |-> 0, skip |-> 0, data |-> <<>>, idx |-> 0]
               /\ pc' = "request"
               /\ UNCHANGED <<exc, exitCode>>
    /\ UNCHANGED <<args, sanitized, file, requests, pages, lastResp, lastOut,
                   yielded, rows, result, fnIn>>

\* search_companies lines 138-145: one page is fetched and looked at
SearchRequest ==
    /\ pc = "request"
    /\ Len(requests) < MaxRequests
    /\ \E response \in SearchResponses :
         LET payload == _get(response)
             data == IF IsRaise(payload) THEN payload ELSE page_data(payload)
         IN /\ requests' = Append(requests, as_query_params(gen.params, gen.skip))
            /\ lastResp' = response
            /\ lastOut' = payload
            /\ IF IsRaise(data)
               THEN /\ MainRaise(data)
                    /\ gen' = [gen EXCEPT !.state = "raised"]
                    /\ UNCHANGED pages
               ELSE /\ pages' = Append(pages, data.l)
                    /\ UNCHANGED <<exc, exitCode>>
                    /\ IF data.l = <<>>
                       THEN /\ gen' = [gen EXCEPT !.state = "exhausted",
                                                  !.data = <<>>, !.idx = 0]
                            /\ pc' = "save"
                       ELSE /\ gen' = [gen EXCEPT !.data = data.l, !.idx = 1]
                            /\ pc' = "yield"
    /\ UNCHANGED <<args, sanitized, file, yielded, rows, result, fnIn>>

\* an exporter that saves the sheet after every row instead of once at the end
SearchYieldSavesEachRow ==
    /\ pc = "yield"
    /\ LET item == gen.data[gen.idx]
           row == flatten_company_record(item)
       IN /\ yielded' = Append(yielded, item)
          /\ IF IsRaise(row)
             THEN /\ MainRaise(row)
                  /\ gen' = [gen EXCEPT !.state = "abandoned"]
                  /\ UNCHANGED <<rows, file>>
             ELSE /\ rows' = Append(rows, row)
                  /\ file' = Workbook(rows')
                  /\ gen' = [gen EXCEPT !.state = "suspended"]
                  /\ pc' = "resume"
                  /\ UNCHANGED <<exc, exitCode>>
    /\ UNCHANGED <<args, sanitized, requests, pages, lastResp, lastOut,
                   result, fnIn>>

\* search_companies line 148 and export_to_excel line 125: the item is
\* yielded and the comprehension flattens it
SearchYield ==
    /\ pc = "yield"
    /\ LET item == gen.data[gen.idx]
           row == flatten_company_record(item)
       IN /\ yielded' = Append(yielded, item)
          /\ IF IsRaise(row)
             THEN /\ MainRaise(row)
                  /\ gen' = [gen EXCEPT !.state = "abandoned"]
                  /\ UNCHANGED rows
             ELSE /\ rows' = Append(rows, row)
                  /\ gen' = [gen EXCEPT !.state = "suspended"]
                  /\ pc' = "resume"
                  /\ UNCHANGED <<exc, exitCode>>
    /\ UNCHANGED <<args, sanitized, file, requests, pages, lastResp, lastOut,
                   result, fnIn>>

\* search_companies lines 149-156: the generator is resumed after a yield
SearchResume ==
    /\ pc = "resume"
    /\ LET fetched == gen.fetched + 1
       IN IF cap_reached(args.max_records, fetched)
          THEN /\ gen' = [gen EXCEPT !.state = "exhausted", !.fetched = fetched]
               /\ pc' = "save"
          ELSE IF gen.idx < Len(gen.data)
          THEN /\ gen' = [gen EXCEPT !.state = "running", !.fetched = fetched,
                                     !.idx = gen.idx + 1]
               /\ pc' = "yield"
          ELSE IF last_page(gen.data, gen.params.limit)
          THEN /\ gen' = [gen EXCEPT !.state = "exhausted", !.fetched = fetched]
               /\ pc' = "save"
          ELSE /\ gen' = [gen EXCEPT !.state = "running", !.fetched = fetched,
                                     !.skip = next_skip(gen.skip, gen.params.limit)]
               /\ pc' = "request"
    /\ UNCHANGED <<args, sanitized, file, requests, pages, lastResp, lastOut,
                   yielded, rows, result, exc, exitCode, fnIn>>

\* export_to_excel lines 126-140 and main lines 142-146: the sheet is built
\* and saved, the row count returned
ExportSave ==
    /\ pc = "save"
    /\ file' = Workbook(rows)
    /\ result' = Num(Len(rows))
    /\ Exit(0, NoExc)
    /\ UNCHANGED <<args, sanitized, requests, pages, lastResp, lastOut, gen,
                   yielded, rows, fnIn>>

Next ==
    \/ MainStart
    \/ MainDryRun
    \/ SearchStart
    \/ SearchRequest
    \/ SearchYield
    \/ SearchResume
    \/ ExportSave

Spec == Init /\ [][Next]_vars

----------------------------------------------------------------------------
\* sanitize_ateco_code called on its own, then once more on its result

InitSanitize ==
    /\ pc = "call"
    /\ fnIn \in Strings(MaxCodeLen)
    /\ args = NoValue
    /\ file = NoFile
    /\ sanitized = NoValue
    /\ requests = <<>>
    /\ pages = <<>>
    /\ lastResp = NoValue
    /\ lastOut = NoValue
    /\ gen = NoGen
    /\ yielded = <<>>
    /\ rows = <<>>
    /\ result = NoValue
    /\ exc = NoExc
    /\ exitCode = -1

SanitizeCall ==
    /\ pc = "call"
    /\ LET r == sanitize_ateco_code(fnIn)
       IN IF IsRaise(r)
          THEN pc' = "raised" /\ exc' = r /\ UNCHANGED sanitized
          ELSE pc' = "returned" /\ sanitized' = r /\ UNCHANGED exc
    /\ UNCHANGED <<args, file, requests, pages, lastResp, lastOut, gen,
                   yielded, rows, result, exitCode, fnIn>>

SanitizeAgain ==
    /\ pc = "returned"
    /\ LET r == sanitize_ateco_code(sanitized.c)
       IN IF IsRaise(r)
          THEN pc' = "raised again" /\ exc' = r /\ UNCHANGED result
          ELSE pc' = "returned again" /\ result' = r /\ UNCHANGED exc
    /\ UNCHANGED <<args, sanitized, file, requests, pages, lastResp, lastOut,
                   gen, yielded, rows, exitCode, fnIn>>

NextSanitize == SanitizeCall \/ SanitizeAgain

SpecSanitize == InitSanitize /\ [][NextSanitize]_vars

----------------------------------------------------------------------------
\* flatten_company_record called on its own

GpsVals == {Absent, Null, Str("45N 10E")}
           \cup {Dict([coordinates |-> c]) :
                    c \in {Null, Str("10,45"), List(<<Flt("10.0")>>),
                           List(<<Flt("10.0"), Flt("45.0")>>)}}
RegionVals == {Absent, Str("Veneto"), Dict([description |-> Str("Veneto")])}
OfficeVals == {Absent, Null, Str("Verona")}
              \cup {MkDict([streetName |-> Str("Via Roma 1"), town |-> Str("Verona"),
                            gps |-> g, region |-> r]) :
                       g \in GpsVals, r \in RegionVals}
AddressVals == {Absent, Null, Num(0), Str("Via Roma 1, Verona")}
               \cup {MkDict([registeredOffice |-> o]) : o \in OfficeVals}
AtecoVals == {Absent, Null, Str("1071")}
             \cup {MkDict([ateco |-> a, secondaryAteco |-> Str("107200")]) :
                      a \in {Absent, Str("1071"), Dict([code |-> Str("1071")])}}
EmployeesVals == {Absent, Null, Num(12), Dict([employee |-> Num(0)]),
                  Dict([employee |-> Num(12),
                        employeeRange |-> Dict([description |-> Str("11-20")])])}
\* the balance sheet, the older ecofin block, a timestamp and the contacts
RestVals ==
    { [balanceSheets |-> Absent, ecofin |-> Absent,
       creationTimestamp |-> Absent, contacts |-> Absent],
      [balanceSheets |-> Dict([last |-> Dict([turnover |-> Num(1000000),
                              turnoverRange |-> Dict([description |-> Str("500k-1M")])])]),
       ecofin |-> Absent, creationTimestamp |-> Num(1700000000),
       contacts |-> Dict([telephoneNumber |-> Str("045")])],
      [balanceSheets |-> Dict([last |-> Null]),
       ecofin |-> Dict([employees |-> Num(7), turnoverRange |-> Str("500k-1M")]),
       creationTimestamp |-> Flt("1e30"), contacts |-> Str("045")],
      [balanceSheets |-> List(<<Num(2023)>>), ecofin |-> Absent,
       creationTimestamp |-> Str("2024-01-01"), contacts |-> Null],
      [balanceSheets |-> Null, ecofin |-> Num(5),
       creationTimestamp |-> Null, contacts |-> Absent],
      [balanceSheets |-> Dict([last |-> Str("2023")]), ecofin |-> Absent,
       creationTimestamp |-> Absent, contacts |-> Absent] }

RawRecords ==
    {MkDict([id |-> Str("123"), address |-> a, atecoClassification |-> c,
             employees |-> e, balanceSheets |-> r.balanceSheets,
             ecofin |-> r.ecofin, creationTimestamp |-> r.creationTimestamp,
             contacts |-> r.contacts]) :
        a \in AddressVals, c \in AtecoVals, e \in EmployeesVals, r \in RestVals}

InitFlatten ==
    /\ pc = "call"
    /\ fnIn \in RawRecords
    /\ args = NoValue
    /\ file = NoFile
    /\ sanitized = NoValue
    /\ requests = <<>>
    /\ pages = <<>>
    /\ lastResp = NoValue
    /\ lastOut = NoValue
    /\ gen = NoGen
    /\ yielded = <<>>
    /\ rows = <<>>
    /\ result = NoValue
    /\ exc = NoExc
    /\ exitCode = -1

FlattenCall ==
    /\ pc = "call"
    /\ LET r == flatten_company_record(fnIn)
       IN IF IsRaise(r)
          THEN pc' = "raised" /\ exc' = r /\ UNCHANGED result
          ELSE pc' = "returned" /\ result' = r /\ UNCHANGED exc
    /\ UNCHANGED <<args, sanitized, file, requests, pages, lastResp, lastOut,
                   gen, yielded, rows, exitCode, fnIn>>

NextFlatten == FlattenCall

SpecFlatten == InitFlatten /\ [][NextFlatten]_vars

----------------------------------------------------------------------------
\* search_companies drained by a caller that keeps asking for the next
\* record (list(client.search_companies(...)) in tests/test_client.py), for
\* as long as the upstream answers.  The requests, pages and records are
\* not recorded here, and the two counters of the generator are kept only up
\* to the value from which the code no longer tells them apart: fetched is
\* only compared with max_records (at most MaxCap), skip only goes into the
\* query.  A run that goes on for ever is then a cycle of states.

MaxFetched == MaxCap + 1
MaxSkip == MaxRequests * MaxLimit

InitIterate ==
    /\ pc = "export"
    /\ args \in [ateco : {<<"1", "0", ".", "7">>}, token : {TRUE},
                 dry_run : {FALSE}, limit : Limits,
                 max_records : MaxRecordsArgs]
    /\ sanitized = sanitize_ateco_code(args.ateco)
    /\ file = NoFile
    /\ requests = <<>>
    /\ pages = <<>>
    /\ lastResp = NoValue
    /\ lastOut = NoValue
    /\ gen = NoGen
    /\ yielded = <<>>
    /\ rows = <<>>
    /\ result = NoValue
    /\ exc = NoExc
    /\ exitCode = -1
    /\ fnIn = NoValue

\* search_companies lines 138-145: one page is fetched and looked at
IterRequest ==
    /\ pc = "request"
    /\ \E response \in SearchResponses :
         LET payload == _get(response)
             data == IF IsRaise(payload) THEN payload ELSE page_data(payload)
         IN IF IsRaise(data)
            THEN /\ MainRaise(data)
                 /\ gen' = [gen EXCEPT !.state = "raised"]
            ELSE /\ UNCHANGED <<exc, exitCode>>
                 /\ IF data.l = <<>>
                    THEN /\ gen' = [gen EXCEPT !.state = "exhausted",
                                               !.data = <<>>, !.idx = 0]
                         /\ pc' = "save"
                    ELSE /\ gen' = [gen EXCEPT !.data = data.l, !.idx = 1]
                         /\ pc' = "yield"
    /\ UNCHANGED <<args, sanitized, file, requests, pages, lastResp, lastOut,
                   yielded, rows, result, fnIn>>

\* search_companies line 148: the item is handed to the caller
IterYield ==
    /\ pc = "yield"
    /\ gen' = [gen EXCEPT !.state = "suspended"]
    /\ pc' = "resume"
    /\ UNCHANGED <<args, sanitized, file, requests, pages, lastResp, lastOut,
                   yielded, rows, result, exc, exitCode, fnIn>>

\* search_companies lines 149-156: the caller asks for the next item
IterResume ==
    /\ pc = "resume"
    /\ LET fetched == gen.fetched + 1
           kept == Min(fetched, MaxFetched)
       IN IF cap_reached(args.max_records, fetched)
          THEN /\ gen' = [gen EXCEPT !.state = "exhausted", !.fetched = kept]
               /\ pc' = "save"
          ELSE IF gen.idx < Len(gen.data)
          THEN /\ gen' = [gen EXCEPT !.state = "running", !.fetched = kept,
                                     !.idx = gen.idx + 1]
               /\ pc' = "yield"
          ELSE IF last_page(gen.data, gen.params.limit)
          THEN /\ gen' = [gen EXCEPT !.state = "exhausted", !.fetched = kept]
               /\ pc' = "save"
          ELSE /\ gen' = [gen EXCEPT !.state = "running", !.fetched = kept,
                                     !.skip = Min(next_skip(gen.skip,
                                                            gen.params.limit),
                                                  MaxSkip)]
               /\ pc' = "request"
    /\ UNCHANGED <<args, sanitized, file, requests, pages, lastResp, lastOut,
                   yielded, rows, result, exc, exitCode, fnIn>>

NextIterate ==
    \/ SearchStart
    \/ IterRequest
    \/ IterYield
    \/ IterResume

\* The code runs in one thread and the caller drains the generator: every
\* step that can be taken is taken.  What the upstream answers is its choice.
SpecIterate == InitIterate /\ [][NextIterate]_vars /\ WF_vars(NextIterate)

----------------------------------------------------------------------------
\* Properties of search_companies (specification Spec)

RECURSIVE Concat(_)
Concat(seqs) == IF seqs = <<>> THEN <<>> ELSE Head(seqs) \o Concat(Tail(seqs))

Uncapped == args.max_records = Null

\* C1: without max_records, the generator fetches page after page while the
\* pages hold at least L records, and once it has ended it has issued
\* exactly k requests, k being the first page with fewer than L records
\* (an empty page included), and has yielded the records of pages 1..k
\* concatenated in order.  No page follows a short page at any time.
C1_PaginatesToFirstShortPage ==
    (~args.dry_run /\ Uncapped /\ gen.state \notin {"none", "raised"}) =>
        LET L == gen.params.limit
            k == Len(pages)
        IN /\ \A j \in 1..(k - 1) : Len(pages[j]) >= L
           /\ gen.state = "exhausted" =>
                /\ k >= 1
                /\ Len(pages[k]) < L
                /\ Len(requests) = k
                /\ yielded = Concat(pages)

\* Pages of sizes 2 and 1 with L = 2: three records from two requests.
C1_Witness ==
    /\ gen.state = "exhausted"
    /\ Uncapped
    /\ gen.params.limit = 2
    /\ pages = << <<RecordA, RecordB>>, <<RecordA>> >>
    /\ yielded = <<RecordA, RecordB, RecordA>>
    /\ Len(requests) = 2

\* C2: with max_records = m >= 1 and only full pages of L records, the
\* generator ends having yielded exactly the first m records, from exactly
\* ceil(m / L) requests.
C2_StopsAtMaxRecords ==
    (/\ gen.state = "exhausted"
     /\ args.max_records.t = "int"
     /\ args.max_records.n >= 1
     /\ \A j \in 1..Len(pages) : Len(pages[j]) = gen.params.limit) =>
        LET L == gen.params.limit
            m == args.max_records.n
        IN /\ Len(yielded) = m
           /\ yielded = SubSeq(Concat(pages), 1, m)
           /\ Len(requests) * L >= m
           /\ (Len(requests) - 1) * L < m

\* m = 3 and L = 2: the second page is left after its first record.
C2_Witness ==
    /\ gen.state = "exhausted"
    /\ args.max_records = Num(3)
    /\ gen.params.limit = 2
    /\ Len(pages) = 2
    /\ Len(pages[1]) = 2 /\ Len(pages[2]) = 2
    /\ Len(yielded) = 3
    /\ Len(requests) = 2

\* A response that makes the fetch fail: no response at all, an HTTP error
\* status, or a body whose success flag is not set.
FetchFails(response) ==
    \/ IsRaise(response)
    \/ response.status >= 400
    \/ "success" \notin DOMAIN response.json.o
    \/ response.json.o.success = Bool(FALSE)

\* C3: when the fetch of page k fails, the error is raised at that request:
\* the run has ended with that error, the failing request is the last one
\* (k requests for k-1 accepted pages) and exactly the records of pages
\* 1..k-1 were yielded before; with k = 1 nothing was yielded.
C3_FetchErrorAborts ==
    (~args.dry_run /\ requests # <<>> /\ FetchFails(lastResp)) =>
        /\ gen.state = "raised"
        /\ pc = "exit"
        /\ IsRaise(lastOut)
        /\ exc = lastOut
        /\ Len(requests) = Len(pages) + 1
        /\ yielded = Concat(pages)
        /\ (Len(requests) = 1 => yielded = <<>>)

\* The second page fails with a success=false body after a full first page.
C3_Witness ==
    /\ ~args.dry_run
    /\ Len(requests) = 2
    /\ lastResp.t = "response" /\ lastResp.status = 200
    /\ PyGet(lastResp.json, "success") = Bool(FALSE)
    /\ gen.state = "raised"
    /\ yielded = <<RecordA, RecordB>>
    /\ exc.cls = "OpenAPIError"

\* C10: every request of search_companies carries limit = min(requested
\* limit, 100), which lies in 1..100, and the k-th request carries
\* skip = (k-1) * limit; with a requested limit <= 0 the call fails with
\* ValueError and no request is issued.
C10_PageSizeAndOffsets ==
    ~args.dry_run =>
        /\ \A k \in 1..Len(requests) :
             /\ requests[k].limit = (IF args.limit > 100 THEN 100 ELSE args.limit)
             /\ requests[k].limit \in 1..100
             /\ requests[k].skip = (k - 1) * requests[k].limit
        /\ (args.limit <= 0 /\ gen # NoGen) =>
             /\ exc.cls = "ValueError"
             /\ gen.state = "raised"
        /\ args.limit <= 0 => requests = <<>>

\* Two requests with L = 2: offsets 0 and 2.
C10_Witness ==
    /\ ~args.dry_run
    /\ args.limit = 2
    /\ Len(requests) = 2
    /\ requests[1].limit = 2 /\ requests[2].limit = 2
    /\ requests[1].skip = 0 /\ requests[2].skip = 2

----------------------------------------------------------------------------
\* Properties of the HTTP client (specification Spec)

SuccessFlagSet(body) == "success" \in DOMAIN body.o /\ body.o.success = Bool(TRUE)

RECURSIVE Horner(_, _)
Horner(acc, chars) ==
    IF chars = <<>> THEN acc
    ELSE Horner(10 * acc + DigitVal(Head(chars)), Tail(chars))

StructuralError(e) ==
    /\ IsRaise(e) /\ e.cls = "OpenAPIError"
    /\ e.text = "Dry run response did not include 'metadata.total'"

C9_ExitCodeZeroOrOne ==
    (pc = "exit" /\ args.token) =>
        /\ exitCode = 0 <=> exc = NoExc
        /\ exc # NoExc => exitCode = 1

\* C8: export_to_excel over the records it is given saves a sheet with the
\* header row and one row per record, in order, the record's id in the
\* first cell, and returns the number of records.
C8_ExportWritesEveryRecord ==
    (pc = "exit" /\ gen.state \in {"exhausted", "abandoned"}) =>
        /\ file.t = "xlsx" /\ file.title = "Aziende"
        /\ Len(file.rows) = Len(yielded) + 1
        /\ file.rows[1] = HeaderRow
        /\ \A i \in 1..Len(yielded) :
             /\ file.rows[i + 1][1] = PyGet(yielded[i], "id")
             /\ file.rows[i + 1] = SheetRow(flatten_company_record(yielded[i]))
        /\ result = Num(Len(yielded))

----------------------------------------------------------------------------
\* Properties of sanitize_ateco_code (specification SpecSanitize)

RECURSIVE DigitsOf(_)
DigitsOf(str) ==
    IF str = <<>> THEN <<>>
    ELSE (IF Head(str) \in Digits THEN <<Head(str)>> ELSE <<>>) \o DigitsOf(Tail(str))

\* C6: for a string with at least one digit the result is the string of
\* its digits in order, and sanitizing the result gives the result again;
\* for a string without a digit (the empty string included) the call
\* raises ValueError and returns nothing.
C6_SanitizeKeepsDigits ==
    pc # "call" =>
        IF \E i \in 1..Len(fnIn) : fnIn[i] \in Digits
        THEN /\ pc \in {"returned", "returned again"}
             /\ exc = NoExc
             /\ sanitized = CharStr(DigitsOf(fnIn))
             /\ pc = "returned again" => result = sanitized
        ELSE /\ pc = "raised"
             /\ exc.cls = "ValueError"
             /\ sanitized = NoValue

C6_Witness ==
    /\ pc = "returned again"
    /\ fnIn = <<"1", ".", "7">>
    /\ sanitized = CharStr(<<"1", "7">>)
    /\ result = CharStr(<<"1", "7">>)

----------------------------------------------------------------------------
\* Properties of flatten_company_record (specification SpecFlatten)

AddressHeaders == {"address", "street_number", "toponym", "town", "province",
                   "zip_code", "town_code", "region", "latitude", "longitude"}

\* The registered office the address fields are read from, if the path to
\* it goes through mappings only.
OfficeOf(record) ==
    LET a == PyGet(record, "address")
        o == IF a.t = "dict" THEN PyGet(a, "registeredOffice") ELSE Null
    IN IF o.t = "dict" THEN o ELSE Null

\* C7: flatten_company_record raises for no record, and when the path to
\* the registered office is missing, null or not a mapping, every address
\* field of the row is null while the id is still produced.
C7_FlattenNeverRaises ==
    pc # "call" =>
        /\ pc = "returned"
        /\ result.o.id = PyGet(fnIn, "id")
        /\ OfficeOf(fnIn) = Null => \A h \in AddressHeaders : result.o[h] = Null

\* the destination as it was before the run: absent, or an earlier file
Untouched == file \in {NoFile, OldFile}

\* C11: the destination is written in one step only, after the record
\* sequence was drained to its end (the generator is exhausted and no request
\* follows); a step in which a page fetch fails, and every step before the
\* save, leaves the destination as it was, so a failure after successful
\* pages leaves no partial output.
C11_WriteOnlyAfterDrain ==
    [][/\ file' # file =>
            /\ pc = "save" /\ pc' = "exit"
            /\ gen.state = "exhausted"
            /\ requests' = requests /\ yielded' = yielded
            /\ file' = Workbook(rows)
       /\ pc' # "exit" => Untouched'
       /\ gen'.state = "raised" => file' = file /\ Untouched']_vars

\* the second page fetch fails after a first page was fetched and its
\* records were flattened: the earlier file is still in place
C11_Witness ==
    /\ pc = "exit" /\ gen.state = "raised"
    /\ Len(requests) = 2 /\ Len(pages) = 1 /\ Len(rows) >= 1
    /\ FetchFails(lastResp)
    /\ file = OldFile

Max(a, b) == IF a >= b THEN a ELSE b

\* C13: with a max_records cap m set (any integer, zero and negative
\* included), at no point of the iteration has search_companies yielded
\* more than max(m, 0) records.
C13_NeverExceedsCap ==
    args.max_records.t = "int" =>
        Len(yielded) <= Max(args.max_records.n, 0)

----------------------------------------------------------------------------
\* Termination of search_companies (specification SpecIterate)

\* the generator has ended: StopIteration, or an exception out of it
Terminated == gen.state \in {"exhausted", "raised"}

\* the page the generator is working through holds at least L records
PageIsFull ==
    pc \in {"yield", "resume"} => ~last_page(gen.data, gen.params.limit)

\* C12 as stated: whatever the upstream answers, and with or without a
\* max_records cap, the generator eventually terminates.
C12_AlwaysTerminates == <>Terminated

\* C12, amended: with a max_records cap set the generator terminates
\* whatever the upstream answers; without a cap it terminates unless every
\* page the upstream returns is a full one, in which case it goes on
\* requesting pages for ever.
C12_TerminatesUnlessFullPagesForever ==
    /\ args.max_records # Null => <>Terminated
    /\ <>Terminated \/ ([]PageIsFull /\ []<>(pc = "request"))

\* a cap of 3 ends the generator inside the second of two full pages
C12_Witness ==
    /\ gen.state = "exhausted"
    /\ args.max_records = Num(3)
    /\ gen.params.limit = 2
    /\ gen.skip = 2
    /\ gen.fetched = 3
    /\ Len(gen.data) = 2 /\ gen.idx = 1

====
